---- MODULE Spec2Model ----
(***************************************************************************)
(* babar: sessions, checkpoints and the repository snapshot archiver.      *)
(* Session objects (src/babar/session.py) share one BabarServer store;     *)
(* archive_git_repo (src/babar/git.py) is modelled over path strings.      *)
(***************************************************************************)
EXTENDS Integers, Sequences, FiniteSets, Bags, TLC

\* ------------------------------------------------------------------ bounds
MaxSessionRows == 2
MaxCheckpoints == 2
MaxWrites == 2
MaxClock == 4

\* --------------------------------------------------------- program values
STATUS_INIT == "INIT"
STATUS_BEGUN == "BEGUN"
STATUS_REVIVED == "REVIVED"

\* The Session objects of the process: Session(name="exp") and
\* Session(meta_handlers={'python_seed': PythonSeedMetaHandler()}).
Sessions == {"s1", "s2"}
None == "None"
CtorName(s) == IF s = "s1" THEN "exp" ELSE None
Argv0 == "train.py"

\* Attribute names used by callers.  "begin" is also a method of the class,
\* "meta_handlers" is the name revive() looks up on the session itself.
Keys == {"lr", "meta_handlers", "begin"}
\* Values: a number, and "{}" which stands for an empty dict.
Values == {"1", "{}"}
EmptyDict == [k \in {} |-> "1"]
\* Names that normal attribute lookup on a Session object resolves, so that
\* __getattr__ is never consulted for them.
ClassAttrs ==
  {"begin", "revive", "checkpoint", "_internals", "_get_stuff",
   "_get_session_directory", "STATUS_INIT", "STATUS_BEGUN", "STATUS_REVIVED"}
BoundAttr == "<attribute of Session>"

\* props passed to begin(**props)
PropChoices ==
  {EmptyDict, [k \in {"lr"} |-> "1"], [k \in {"meta_handlers"} |-> "{}"]}

\* The default meta handler registry of Session.__init__.
DefaultHandlers ==
  {"numpy_seed", "python_seed", "pytorch_seed", "sys.version", "sys.argv"}
\* Modules the host process has imported (sys.modules).
LoadedModules == {"random"}

\* pickle: dumps wraps a value into a blob, loads unwraps it.
dumps(x) == <<"pickle", x>>
loads(blob) == blob[2]

\* ------------------------------------------------------------------ git.py
\* A path string is a sequence of atoms: names, "/" and " ".
RepoPath == <<"/proj">>
FA == <<"a.txt">>
FB == <<"b.txt">>
FC == <<"c.txt">>
FMy == <<"my", " ", "file.txt">>
FSub == <<"sub", "/", "d.txt">>
FSubX == <<"sub", " ", "x">>
FGit == <<".git", "/", "config">>
DSub == <<"sub">>
FileUniverse == {FA, FB, FC, FMy, FSub, FSubX}
IgnoreUniverse == {FB, FC, DSub}

\* pathlib: repo_path / p, os.path.join(dirpath, fn), fp.relative_to(repo_path)
JoinPath(base, p) == base \o <<"/">> \o p
RelativeTo(fp, base) == SubSeq(fp, Len(base) + 2, Len(fp))

LastSlash(p) ==
  LET idx == {i \in 1..Len(p) : p[i] = "/"}
  IN IF idx = {} THEN 0 ELSE CHOOSE i \in idx : \A j \in idx : j <= i
Dirname(p) == SubSeq(p, 1, LastSlash(p) - 1)
Basename(p) == SubSeq(p, LastSlash(p) + 1, Len(p))

\* The directories of the work tree rooted at RepoPath (absolute paths).
WorkTreeFiles(r) == {JoinPath(RepoPath, f) : f \in r.files}
WorkTreeDirs(r) ==
  UNION { {SubSeq(f, 1, i - 1) : i \in {j \in 2..Len(f) : f[j] = "/"}}
          : f \in WorkTreeFiles(r) }

\* subprocess.run(['git', 'status']): exit code 0 in a repository, another
\* code outside one; FileNotFoundError when there is no git executable.
GitStatusRaises(r) == r.git = "missing"
is_git_repo(r) == r.git = "yes"

\* str.split(): cut at every whitespace atom, dropping empty pieces.
RECURSIVE SplitFrom(_, _, _)
SplitFrom(str, i, cur) ==
  IF i > Len(str)
  THEN IF cur = <<>> THEN <<>> ELSE <<cur>>
  ELSE IF str[i] \in {" ", "\n"}
       THEN (IF cur = <<>> THEN <<>> ELSE <<cur>>) \o SplitFrom(str, i + 1, <<>>)
       ELSE SplitFrom(str, i + 1, Append(cur, str[i]))
split(str) == SplitFrom(str, 1, <<>>)

\* stdout of `git ls-files`: one tracked path per line.
RECURSIVE LsFilesStdout(_)
LsFilesStdout(tracked) ==
  IF tracked = {} THEN <<>>
  ELSE LET p == CHOOSE q \in tracked : TRUE
       IN p \o <<"\n">> \o LsFilesStdout(tracked \ {p})

ls_files(r) == split(LsFilesStdout(r.tracked))

\* `git check-ignore --quiet path`: exit 0 when the path, or a directory
\* above it, matches an ignore rule.
is_path_ignored(r, path) ==
  LET rel == RelativeTo(path, RepoPath)
  IN \/ rel \in r.ignore
     \/ \E i \in 2..Len(rel) : rel[i] = "/" /\ SubSeq(rel, 1, i - 1) \in r.ignore

\* os.walk(repo_path, topdown=True) with the pruning of dirnames.
RECURSIVE WalkFrom(_, _)
WalkFrom(r, dirpath) ==
  LET filenames == {f \in WorkTreeFiles(r) : Dirname(f) = dirpath}
      dirnames == {d \in WorkTreeDirs(r) : Dirname(d) = dirpath /\ d # dirpath}
      kept == {d \in dirnames : ~is_path_ignored(r, d) /\ Basename(d) # <<".git">>}
  IN {f \in filenames : ~is_path_ignored(r, f)}
       \cup UNION {WalkFrom(r, d) : d \in kept}
all_unignored_files(r) == WalkFrom(r, RepoPath)

\* file_paths = set([repo_path / p ...] + [Path(p) ...])
FilePaths(r) ==
  {JoinPath(RepoPath, ls_files(r)[i]) : i \in 1..Len(ls_files(r))}
    \cup all_unignored_files(r)

\* ZipFile.write(fp, arcname): a file is stored under arcname, a directory as
\* arcname + "/", anything else raises FileNotFoundError.
Writable(r, fp) == fp \in WorkTreeFiles(r) \cup WorkTreeDirs(r)
ArcName(r, fp) ==
  IF fp \in WorkTreeDirs(r)
  THEN RelativeTo(fp, RepoPath) \o <<"/">>
  ELSE RelativeTo(fp, RepoPath)
ZipOf(r, fps) == SetToBag({ArcName(r, fp) : fp \in fps})

\* The archives archive_git_repo can leave at outpath: every path written
\* once when all exist; otherwise the call raises after the paths that came
\* before the first missing one in the set's iteration order.
archive_git_repo(r) ==
  LET fps == FilePaths(r)
      good == {fp \in fps : Writable(r, fp)}
  IN IF good = fps
     THEN {[status |-> "ok", entries |-> ZipOf(r, fps)]}
     ELSE {[status |-> "error", entries |-> ZipOf(r, part)] : part \in SUBSET good}

NoArchive == [status |-> "none", entries |-> EmptyBag]

VARIABLES
  internals,     \* per Session object: the fields of self._internals
  sessions,      \* rows of table sessions
  checkpoints,   \* rows of table checkpoints
  dirs,          \* session directories on disk: id -> archive written there
  now,           \* time.time()
  rng,           \* state of the process-wide random generator
  repo,          \* the project root: work tree, index and ignore rules
  archive,       \* result of the last archive_git_repo call
  nwrites,       \* number of state writes so far (bounded)
  last,          \* the last call and its outcome
  orig,          \* checkpoint id -> props/state held when it was taken
  hist           \* per Session object: what has been called on it

vars == <<internals, sessions, checkpoints, dirs, now, rng, repo, archive,
          nwrites, last, orig, hist>>
\* -------------------------------------------------------------- BabarServer
\* sqlite3.connect() is used as it comes: no PRAGMA foreign_keys is issued,
\* so the connection does not enforce the FOREIGN KEY clause of the schema.
ForeignKeysEnabled == FALSE

\* INTEGER PRIMARY KEY: the new rowid is one more than the largest in use.
RowIds(rows) == {r.id : r \in rows}
lastrowid(rows) ==
  IF rows = {} THEN 1
  ELSE (CHOOSE i \in RowIds(rows) : \A j \in RowIds(rows) : j <= i) + 1

\* (variant: the id is taken from the checkpoints table)
insert_session_wrong_table(timestamp, nm, script, initial_props) ==
  [id |-> lastrowid(checkpoints), timestamp |-> timestamp, name |-> nm,
   current_script |-> script, serialized_initial_props |-> initial_props]

insert_session(timestamp, nm, current_script, serialized_initial_props) ==
  [id |-> lastrowid(sessions), timestamp |-> timestamp, name |-> nm,
   current_script |-> current_script,
   serialized_initial_props |-> serialized_initial_props]

\* (variant: the id is taken from the sessions table)
insert_checkpoint_wrong_table(timestamp, serialized_data, session_id) ==
  [id |-> lastrowid(sessions), timestamp |-> timestamp,
   serialized_data |-> serialized_data, session_id |-> session_id]

insert_checkpoint(timestamp, serialized_data, session_id) ==
  [id |-> lastrowid(checkpoints), timestamp |-> timestamp,
   serialized_data |-> serialized_data, session_id |-> session_id]

\* cursor.fetchone(): the rows with this id (none or one).
get_checkpoint(checkpoint_id) == {r \in checkpoints : r.id = checkpoint_id}

\* DELETE FROM sessions WHERE _id = ?, on the connection of _get_db_conn.
CheckpointsAfterDelete(sid) ==
  IF ForeignKeysEnabled
  THEN {c \in checkpoints : c.session_id # sid}
  ELSE checkpoints

\* ------------------------------------------------------------ meta handlers
CustomHandlers == {"python_seed"}
meta_handlers(s) == IF s = "s1" THEN DefaultHandlers ELSE CustomHandlers

freeze(k) ==
  CASE k = "numpy_seed" -> IF "numpy" \in LoadedModules THEN "np0" ELSE None
    [] k = "python_seed" -> IF "random" \in LoadedModules THEN rng ELSE None
    [] k = "pytorch_seed" -> IF "torch" \in LoadedModules THEN "t0" ELSE None
    [] k = "sys.version" -> "3.x"
    [] k = "sys.argv" -> Argv0

\* ------------------------------------------------------------------ Session
Put(d, k, v) == [x \in DOMAIN d \cup {k} |-> IF x = k THEN v ELSE d[x]]

\* Session.__init__
NewSession(s) ==
  [status |-> STATUS_INIT, name |-> CtorName(s), current_script |-> Argv0,
   has_props |-> FALSE, props |-> EmptyDict, state |-> EmptyDict,
   session_id |-> 0]

\* Session._get_stuff
get_stuff(s) ==
  [meta |-> [k \in meta_handlers(s) |-> freeze(k)],
   payload |-> [props |-> internals[s].props, state |-> internals[s].state]]

\* (variant: no test of the status)
getattr_hook_no_status_test(I, nm) ==
  IF nm \in DOMAIN I.props THEN [outcome |-> "ok", val |-> I.props[nm]]
  ELSE IF nm \in DOMAIN I.state THEN [outcome |-> "ok", val |-> I.state[nm]]
  ELSE [outcome |-> "KeyError", val |-> None]

\* Session.__getattr__: what it raises, or "ok" and the value.
getattr_hook(I, nm) ==
  IF I.status = STATUS_INIT THEN [outcome |-> "NotReady", val |-> None]
  ELSE IF nm \in DOMAIN I.props THEN [outcome |-> "ok", val |-> I.props[nm]]
  ELSE IF nm \in DOMAIN I.state THEN [outcome |-> "ok", val |-> I.state[nm]]
  ELSE [outcome |-> "KeyError", val |-> None]

\* getattr(session, name): normal lookup first, __getattr__ only when it fails.
getattr(I, nm) ==
  IF nm \in ClassAttrs THEN [outcome |-> "ok", val |-> BoundAttr]
  ELSE getattr_hook(I, nm)

\* (variant: no test of the name against props)
setattr_outcome_no_prop_test(I, nm) ==
  IF I.status = STATUS_INIT THEN "NotReady" ELSE "ok"

\* Session.__setattr__: what it raises ("ok" when it stores).
setattr_outcome(I, nm) ==
  IF I.status = STATUS_INIT THEN "NotReady"
  ELSE IF nm \in DOMAIN I.props THEN "PropImmutable"
  ELSE "ok"

\* (variant: a BEGUN session is begun again)
begin_branch_rebegin(st) ==
  CASE st = STATUS_INIT -> "run"
    [] st = STATUS_BEGUN -> "run"
    [] st = STATUS_REVIVED -> "InvalidTransition"

\* Session.begin: the branch taken for a status.
begin_branch(st) ==
  CASE st = STATUS_INIT -> "run"
    [] st = STATUS_BEGUN -> "InvalidTransition"
    [] st = STATUS_REVIVED -> "InvalidTransition"

\* (variant: the status is updated before the directory and the archive)
begin_failed_status_first(I1) == [I1 EXCEPT !.status = STATUS_BEGUN]

\* Session.begin: the internals left when a step after insert_session
\* raises; the status assignment of line 245 has not been reached.
begin_failed(I1) == I1

\* Session.checkpoint: the branch taken for a status.
checkpoint_branch(st) ==
  CASE st = STATUS_INIT -> "NotBegun"
    [] st = STATUS_BEGUN -> "insert"
    [] st = STATUS_REVIVED -> "warn"

\* The items of a value used as a handler mapping: "{}" has none.
HandlerItems(val) == {}

\* Session.revive, from its first line to the line it raises at or its end:
\* the internals it leaves and what it raised.
revive_result(I, checkpoint_id) ==
  LET I1 == [I EXCEPT !.name = None, !.current_script = None]
      found == get_checkpoint(checkpoint_id)
  IN IF found = {}
     THEN [internals |-> I1, outcome |-> "TypeError", restored |-> EmptyDict]
     ELSE
       LET row == CHOOSE r \in found : TRUE
           I2 == [I1 EXCEPT !.session_id = row.session_id]
           prev == loads(row.serialized_data)
           handlers == getattr(I2, "meta_handlers")
       IN IF handlers.outcome # "ok"
          THEN [internals |-> I2, outcome |-> handlers.outcome,
                restored |-> EmptyDict]
          ELSE IF handlers.val # "{}"
          THEN [internals |-> I2, outcome |-> "AttributeError",
                restored |-> EmptyDict]
          ELSE [internals |-> [I2 EXCEPT !.has_props = TRUE,
                                         !.props = prev.payload.props,
                                         !.state = prev.payload.state],
                outcome |-> "ok",
                restored |-> [k \in HandlerItems(handlers.val) |-> prev.meta[k]]]

\* ------------------------------------------------------------ the process
\* A call: the operation, the Session object, its key or id argument, what
\* it raised ("ok" when it returned), and the id or value it returned.
\* ret_keys is the list dir() returned (as a bag of names) and restored the
\* values MetaHandler.revive was called with, by handler name.
NoCall ==
  [op |-> "none", s |-> "s1", key |-> None, arg |-> 0, outcome |-> "ok",
   ret_id |-> 0, ret_val |-> None, ret_keys |-> EmptyBag,
   restored |-> EmptyDict]
Call(op, s, key, arg, outcome, ret_id, ret_val) ==
  [op |-> op, s |-> s, key |-> key, arg |-> arg, outcome |-> outcome,
   ret_id |-> ret_id, ret_val |-> ret_val, ret_keys |-> EmptyBag,
   restored |-> EmptyDict]

\* own_id is the id insert_session returned to the object's latest begin,
\* inserted the ids of the session rows it inserted, failed the ids of the rows
\* inserted by its begin calls that raised after the insert.
NoHist ==
  [revive_called |-> FALSE, revived |-> FALSE, written |-> EmptyDict,
   own_id |-> 0, inserted |-> {}, failed |-> {}]

\* time.time() after a row was stamped
Tick == IF now < MaxClock THEN now + 1 ELSE now

\* Project roots a session is run in: no repository; a repository with
\* tracked a.txt, untracked b.txt and ignored c.txt; one whose tracked file
\* has a space in its name; one on a machine without the git executable.
PlainRepo ==
  [git |-> "no", files |-> {FA}, tracked |-> {}, ignore |-> {}]
GoodRepo ==
  [git |-> "yes", files |-> {FA, FB, FC, FGit}, tracked |-> {FA},
   ignore |-> {FC}]
SpaceRepo ==
  [git |-> "yes", files |-> {FA, FMy, FGit}, tracked |-> {FA, FMy},
   ignore |-> {}]
NoGitRepo ==
  [git |-> "missing", files |-> {FA}, tracked |-> {}, ignore |-> {}]
SessionRepos == {PlainRepo, GoodRepo, SpaceRepo, NoGitRepo}
AllRepos ==
  { [git |-> "yes", files |-> fs \cup {FGit}, tracked |-> tr, ignore |-> ig] :
      fs \in SUBSET FileUniverse, tr \in SUBSET FileUniverse,
      ig \in SUBSET IgnoreUniverse }

InitCommon ==
  /\ internals = [s \in Sessions |-> NewSession(s)]
  /\ sessions = {}
  /\ checkpoints = {}
  /\ now = 1
  /\ rng = "r0"
  /\ archive = NoArchive
  /\ nwrites = 0
  /\ last = NoCall
  /\ orig = << >>
  /\ hist = [s \in Sessions |-> NoHist]

Init == InitCommon /\ repo \in SessionRepos /\ dirs = {}

\* session.begin(**p)
Begin(s, p) ==
  LET I == internals[s]
      row == insert_session(now, I.name, I.current_script, dumps(p))
      I1 == [I EXCEPT !.has_props = TRUE, !.props = p, !.state = EmptyDict,
                      !.session_id = row.id]
      done == [I1 EXCEPT !.status = STATUS_BEGUN]
      h == hist[s]
  IN IF begin_branch(I.status) # "run"
     THEN /\ last' = Call("begin", s, None, 0, begin_branch(I.status), 0, None)
          /\ UNCHANGED <<internals, sessions, checkpoints, dirs, now, rng,
                         repo, archive, nwrites, orig, hist>>
     ELSE /\ Cardinality(sessions) < MaxSessionRows
          /\ sessions' = sessions \cup {row}
          /\ now' = Tick
          /\ UNCHANGED <<checkpoints, rng, repo, nwrites, orig>>
          /\ IF row.id \in dirs
             THEN \* mkdir: the directory is there already
                  /\ internals' = [internals EXCEPT ![s] = begin_failed(I1)]
                  /\ last' = Call("begin", s, None, 0, "DirectoryConflict", row.id, None)
                  /\ UNCHANGED <<dirs, archive>>
             ELSE /\ dirs' = dirs \cup {row.id}
                  /\ IF GitStatusRaises(repo)
                     THEN /\ internals' = [internals EXCEPT ![s] = begin_failed(I1)]
                          /\ last' = Call("begin", s, None, 0, "GitNotFound", row.id, None)
                          /\ UNCHANGED archive
                     ELSE IF is_git_repo(repo)
                     THEN \E a \in archive_git_repo(repo) :
                            /\ archive' = a
                            /\ IF a.status = "ok"
                               THEN /\ internals' = [internals EXCEPT ![s] = done]
                                    /\ last' = Call("begin", s, None, 0, "ok", row.id, None)
                               ELSE /\ internals' = [internals EXCEPT ![s] = begin_failed(I1)]
                                    /\ last' = Call("begin", s, None, 0, "ArchiveError", row.id, None)
                     ELSE /\ internals' = [internals EXCEPT ![s] = done]
                          /\ last' = Call("begin", s, None, 0, "ok", row.id, None)
                          /\ UNCHANGED archive
          /\ hist' = [hist EXCEPT ![s] =
                        [h EXCEPT !.written = EmptyDict, !.own_id = row.id,
                                  !.inserted = @ \cup {row.id},
                                  !.failed = IF last'.outcome = "ok"
                                             THEN @ ELSE @ \cup {row.id}]]

\* session.checkpoint()
Checkpoint(s) ==
  LET I == internals[s]
      branch == checkpoint_branch(I.status)
      row == insert_checkpoint(now, dumps(get_stuff(s)), I.session_id)
  IN /\ UNCHANGED <<internals, sessions, dirs, rng, repo, archive, nwrites, hist>>
     /\ IF branch = "insert"
        THEN /\ Cardinality(checkpoints) < MaxCheckpoints
             /\ IF ForeignKeysEnabled /\ I.session_id \notin RowIds(sessions)
                THEN /\ last' = Call("checkpoint", s, None, 0, "IntegrityError", 0, None)
                     /\ UNCHANGED <<checkpoints, now, orig>>
                ELSE /\ checkpoints' = checkpoints \cup {row}
                     /\ now' = Tick
                     /\ orig' = [c \in DOMAIN orig \cup {row.id} |->
                                   IF c = row.id
                                   THEN [props |-> I.props, state |-> I.state]
                                   ELSE orig[c]]
                     /\ last' = Call("checkpoint", s, None, 0, "ok", row.id, None)
        ELSE /\ last' = Call("checkpoint", s, None, 0,
                             IF branch = "warn" THEN "ok" ELSE branch, 0, None)
             /\ UNCHANGED <<checkpoints, now, orig>>

\* session.<k> = v
Set(s, k, v) ==
  LET I == internals[s]
      out == setattr_outcome(I, k)
      h == hist[s]
  IN /\ last' = Call("set", s, k, 0, out, 0, None)
     /\ UNCHANGED <<sessions, checkpoints, dirs, now, rng, repo, archive, orig>>
     /\ IF out = "ok"
        THEN /\ nwrites < MaxWrites
             /\ nwrites' = nwrites + 1
             /\ internals' = [internals EXCEPT ![s].state = Put(I.state, k, v)]
             /\ hist' = [hist EXCEPT ![s] =
                           [h EXCEPT !.written = Put(hist[s].written, k, v)]]
        ELSE /\ hist' = [hist EXCEPT ![s] = h]
             /\ UNCHANGED <<internals, nwrites>>

\* session.<k>
Get(s, k) ==
  LET res == getattr(internals[s], k)
  IN /\ last' = Call("get", s, k, 0, res.outcome, 0, res.val)
     /\ UNCHANGED <<internals, sessions, checkpoints, dirs, now, rng, repo,
                    archive, nwrites, orig, hist>>

\* Session.__dir__: the names it lists.
dir_keys(I) ==
  IF I.status = STATUS_INIT THEN EmptyBag
  ELSE SetToBag(DOMAIN I.props) (+) SetToBag(DOMAIN I.state)

\* dir(session)
Dir(s) ==
  /\ last' = [Call("dir", s, None, 0, "ok", 0, None)
                EXCEPT !.ret_keys = dir_keys(internals[s])]
  /\ UNCHANGED <<internals, sessions, checkpoints, dirs, now, rng, repo,
                 archive, nwrites, orig, hist>>

\* session.revive(cid)
Revive(s, cid) ==
  LET res == revive_result(internals[s], cid)
  IN /\ internals' = [internals EXCEPT ![s] = res.internals]
     /\ last' = [Call("revive", s, None, cid, res.outcome, 0, None)
                   EXCEPT !.restored = res.restored]
     /\ hist' = [hist EXCEPT ![s].revive_called = TRUE,
                             ![s].revived = @ \/ res.outcome = "ok"]
     /\ UNCHANGED <<sessions, checkpoints, dirs, now, rng, repo, archive,
                    nwrites, orig>>

\* One Session object in use: every call a caller can make on it.
Next ==
  \/ \E p \in PropChoices : Begin("s1", p)
  \/ Checkpoint("s1")
  \/ \E k \in Keys, v \in Values : Set("s1", k, v)
  \/ \E k \in Keys : Get("s1", k)
  \/ \E cid \in 1..(MaxCheckpoints + 1) : Revive("s1", cid)
  \/ Dir("s1")

Spec == Init /\ [][Next]_vars

\* DELETE FROM sessions WHERE _id = sid, issued on the store's connection.
DeleteSession(sid) ==
  /\ sid \in RowIds(sessions)
  /\ sessions' = {r \in sessions : r.id # sid}
  /\ checkpoints' = CheckpointsAfterDelete(sid)
  /\ last' = Call("delete_session", "s1", None, sid, "ok", 0, None)
  /\ UNCHANGED <<internals, dirs, now, rng, repo, archive, nwrites, orig, hist>>

NextStore == Next \/ \E sid \in 1..MaxSessionRows : DeleteSession(sid)
SpecStore == Init /\ [][NextStore]_vars

\* A second Session object of the same process, never begun, on which a
\* checkpoint of the first is revived.
NextFresh ==
  \/ Next
  \/ \E cid \in 1..(MaxCheckpoints + 1) : Revive("s2", cid)
  \/ Checkpoint("s2")
  \/ \E k \in Keys, v \in Values : Set("s2", k, v)
  \/ \E k \in Keys : Get("s2", k)
SpecFresh == Init /\ [][NextFresh]_vars

\* Two Session objects writing to the same store.
NextShared ==
  \/ \E s \in Sessions, p \in PropChoices : Begin(s, p)
  \/ \E s \in Sessions : Checkpoint(s)
  \/ \E s \in Sessions, cid \in 1..(MaxCheckpoints + 1) : Revive(s, cid)
SpecShared == Init /\ [][NextShared]_vars

\* archive_git_repo(repo_path, outpath) on its own, over every repository
\* of the universe.
ArchiveGitRepo ==
  /\ archive = NoArchive
  /\ \E a \in archive_git_repo(repo) : archive' = a
  /\ last' = Call("archive_git_repo", "s1", None, 0, "ok", 0, None)
  /\ UNCHANGED <<internals, sessions, checkpoints, dirs, now, rng, repo,
                 nwrites, orig, hist>>

InitArchive == InitCommon /\ repo \in AllRepos /\ dirs = {}
SpecArchive == InitArchive /\ [][ArchiveGitRepo]_vars

\* ------------------------------------------------------------------ claims
Fresh(s) == internals[s] = NewSession(s)
CheckpointRow(cid) == CHOOSE r \in checkpoints : r.id = cid

\* C1: a checkpoint taken on a begun session and revived into a fresh
\* session (status INIT, same store) completes and leaves that session with
\* the props and state the original held when the checkpoint was taken.
C1_RoundTrip ==
  [][(/\ last'.op = "revive"
      /\ Fresh(last'.s)
      /\ last'.arg \in DOMAIN orig)
     => (/\ last'.outcome = "ok"
         /\ internals'[last'.s].has_props
         /\ internals'[last'.s].props = orig[last'.arg].props
         /\ internals'[last'.s].state = orig[last'.arg].state)]_vars

\* C2: revive of an existing checkpoint id completes from every status, and
\* leaves status REVIVED and the checkpoint's parent session id as the
\* active session id.
C2_ReviveLegal ==
  (last.op = "revive" /\ get_checkpoint(last.arg) # {})
    => /\ last.outcome = "ok"
       /\ internals[last.s].status = STATUS_REVIVED
       /\ internals[last.s].session_id = CheckpointRow(last.arg).session_id

\* C3: begin on a session whose status is BEGUN or REVIVED fails with
\* InvalidTransition, leaves props, state and status as they were and
\* inserts no session row.
C3_RebeginFails ==
  [][(/\ last'.op = "begin"
      /\ internals[last'.s].status \in {STATUS_BEGUN, STATUS_REVIVED})
     => (/\ last'.outcome = "InvalidTransition"
         /\ internals'[last'.s].props = internals[last'.s].props
         /\ internals'[last'.s].state = internals[last'.s].state
         /\ internals'[last'.s].status = internals[last'.s].status
         /\ sessions' = sessions)]_vars
C3_Witness ==
  /\ last.op = "begin"
  /\ last.outcome = "InvalidTransition"
  /\ internals[last.s].status = STATUS_BEGUN
  /\ DOMAIN internals[last.s].state # {}

\* C4: checkpoint() on a session on which a revive call has completed
\* inserts no row and returns null.
C4_CheckpointAfterReviveNoOp ==
  [][(last'.op = "checkpoint" /\ hist[last'.s].revived)
     => (checkpoints' = checkpoints /\ last'.ret_id = 0)]_vars

\* C5: after start and any checkpoint, read and write calls, get(k) returns
\* the value of the latest set(k, v), for every k that is not a prop key.
C5_GetAfterSet ==
  (/\ last.op = "get"
   /\ ~hist[last.s].revive_called
   /\ last.key \notin DOMAIN internals[last.s].props
   /\ last.key \in DOMAIN hist[last.s].written)
    => /\ last.outcome = "ok"
       /\ last.ret_val = hist[last.s].written[last.key]

\* C6 as stated: set(k, v) on a prop key k fails with PropImmutable in every
\* status and leaves props and state unchanged.
C6_PropImmutableAnyStatus ==
  [][(/\ last'.op = "set"
      /\ internals[last'.s].has_props
      /\ last'.key \in DOMAIN internals[last'.s].props)
     => (/\ last'.outcome = "PropImmutable"
         /\ internals'[last'.s] = internals[last'.s])]_vars

\* C6 amended: set(k, v) on a prop key k always fails and leaves props and
\* state unchanged; it fails with PropImmutable when the status is BEGUN or
\* REVIVED and with NotReady when the status is INIT.
C6_PropWriteFails ==
  [][(/\ last'.op = "set"
      /\ internals[last'.s].has_props
      /\ last'.key \in DOMAIN internals[last'.s].props)
     => (/\ last'.outcome =
              IF internals[last'.s].status = STATUS_INIT
              THEN "NotReady" ELSE "PropImmutable"
         /\ internals'[last'.s] = internals[last'.s])]_vars
C6_Witness ==
  /\ last.op = "set"
  /\ last.outcome = "PropImmutable"
  /\ internals[last.s].status = STATUS_BEGUN
  /\ last.key \in DOMAIN internals[last.s].props

\* C7: checkpoint() on a BEGUN session adds exactly one checkpoint row, the
\* row references the session's active session id, and the id returned was
\* returned by no earlier checkpoint() call on the store.
C7_CheckpointInserts ==
  [][(/\ last'.op = "checkpoint"
      /\ internals[last'.s].status = STATUS_BEGUN)
     => (/\ Cardinality(checkpoints') = Cardinality(checkpoints) + 1
         /\ checkpoints \subseteq checkpoints'
         /\ \A r \in checkpoints' \ checkpoints :
              /\ r.session_id = internals[last'.s].session_id
              /\ r.id = last'.ret_id
         /\ last'.ret_id \notin DOMAIN orig)]_vars
C7_Witness ==
  /\ last.op = "checkpoint"
  /\ last.ret_id = 2
  /\ Cardinality(checkpoints) = 2
  /\ \E r \in checkpoints : r.id = 1 /\ r.session_id # internals[last.s].session_id

\* C8: deleting a session row leaves no checkpoint row that references it.
C8_DeleteCascades ==
  last.op = "delete_session"
    => \A c \in checkpoints : c.session_id # last.arg

\* C9: the archive written by archive_git_repo holds, once each and under
\* their paths relative to the project root, exactly the tracked paths and
\* the unignored files reached by the walk.
C9_ArchiveIsTrackedPlusUnignored ==
  archive # NoArchive
    => /\ archive.status = "ok"
       /\ archive.entries =
            SetToBag(repo.tracked \cup
                     {RelativeTo(f, RepoPath) : f \in all_unignored_files(repo)})

\* C10: reviving one checkpoint id into two independent sessions leaves both
\* holding props and state, with equal props and equal state.
C10_ReviveTwice ==
  [][(/\ last.op = "revive" /\ last'.op = "revive"
      /\ last.s # last'.s
      /\ last.arg = last'.arg
      /\ get_checkpoint(last.arg) # {})
     => (/\ internals'[last.s].has_props
         /\ internals'[last'.s].has_props
         /\ internals'[last.s].props = internals'[last'.s].props
         /\ internals'[last.s].state = internals'[last'.s].state)]_vars

\* The outcomes of a begin call that raised after insert_session.
BeginFailures == {"DirectoryConflict", "GitNotFound", "ArchiveError"}

\* C11: a begin call made in INIT whose directory creation or repository
\* archive fails raises, leaves the status INIT (BEGUN is reached only by a
\* call that returns normally), and the session row it inserted is in the
\* store when it returns.
C11_NoPartialBegin ==
  [][(last'.op = "begin" /\ internals[last'.s].status = STATUS_INIT)
     => /\ last'.ret_id \notin RowIds(sessions)
        /\ \E r \in sessions' : r.id = last'.ret_id
        /\ sessions \subseteq sessions'
        /\ (last'.outcome = "ok")
             <=> (internals'[last'.s].status = STATUS_BEGUN)
        /\ (last'.outcome \in BeginFailures)
             <=> (internals'[last'.s].status = STATUS_INIT)]_vars

\* A begin call has just failed on an existing session directory, the status
\* is INIT and the row it inserted is in the store.
C11_Witness ==
  /\ last.op = "begin"
  /\ last.outcome = "DirectoryConflict"
  /\ internals[last.s].status = STATUS_INIT
  /\ \E r \in sessions : r.id = last.ret_id

\* A call on a session in INIT that raised and changed neither the session
\* nor the store.
FailsUnchanged ==
  /\ last'.outcome # "ok"
  /\ internals' = internals
  /\ sessions' = sessions
  /\ checkpoints' = checkpoints

\* C12: while the status is INIT every get(name), every set(name, value) and
\* every checkpoint() raises and changes neither the session nor the store,
\* and keys() returns the empty sequence.
C12_InitNothingAccessible ==
  [][(internals[last'.s].status = STATUS_INIT)
     => /\ (last'.op \in {"get", "set", "checkpoint"}) => FailsUnchanged
        /\ (last'.op = "dir") => last'.ret_keys = EmptyBag]_vars

\* C12 amended: as C12, for every name that is not an attribute of the
\* Session class; reading a class attribute (a method such as begin, a
\* STATUS_ constant, _internals) returns it in every status.
C12_InitNothingAccessibleButClassAttrs ==
  [][(internals[last'.s].status = STATUS_INIT)
     => /\ (last'.op \in {"set", "checkpoint"}) => FailsUnchanged
        /\ (last'.op = "get" /\ last'.key \notin ClassAttrs) => FailsUnchanged
        /\ (last'.op = "get" /\ last'.key \in ClassAttrs)
             => (last'.outcome = "ok" /\ last'.ret_val = BoundAttr)
        /\ (last'.op = "dir") => last'.ret_keys = EmptyBag]_vars

\* A read of a prop key has just raised on a session that is in INIT and
\* holds props (assigned by a begin call that failed).
C12_Witness ==
  /\ last.op = "get"
  /\ last.outcome = "NotReady"
  /\ internals[last.s].status = STATUS_INIT
  /\ internals[last.s].has_props
  /\ last.key \in DOMAIN internals[last.s].props

\* C13: the status of a session changes only from INIT to BEGUN, by a begin
\* call that returns normally, or from any status to REVIVED, by a revive
\* call; it never returns to INIT, never goes from REVIVED to BEGUN, and
\* REVIVED is left by no call.
C13_StatusTransitions ==
  [][\A s \in Sessions :
       LET old == internals[s].status
           new == internals'[s].status
       IN /\ new # old
             => \/ /\ old = STATUS_INIT
                   /\ new = STATUS_BEGUN
                   /\ last' = Call("begin", s, None, 0, "ok", last'.ret_id, None)
                \/ /\ new = STATUS_REVIVED
                   /\ last'.op = "revive"
                   /\ last'.s = s
          /\ old # STATUS_INIT => new # STATUS_INIT
          /\ old = STATUS_REVIVED => new = STATUS_REVIVED]_vars

\* A begin call has just returned normally and has taken the session from
\* INIT to BEGUN.
C13_Witness ==
  /\ last.op = "begin"
  /\ last.outcome = "ok"
  /\ internals[last.s].status = STATUS_BEGUN
  /\ internals[last.s].session_id = last.ret_id

\* C14: in every reachable state in which a session holds props and state,
\* no key is both a prop key and a state key.
C14_PropsStateDisjoint ==
  \A s \in Sessions :
    internals[s].has_props
      => DOMAIN internals[s].props \cap DOMAIN internals[s].state = {}

\* A revive call has completed on a session that holds a prop and a state
\* key.
C14_Witness ==
  /\ last.op = "revive"
  /\ last.outcome = "ok"
  /\ internals[last.s].has_props
  /\ DOMAIN internals[last.s].props # {}
  /\ DOMAIN internals[last.s].state # {}

\* C15: in every reachable state of a store shared by the Session objects,
\* the session_id of every checkpoint row is the id of exactly one session
\* row.
C15_CheckpointParentExists ==
  \A c \in checkpoints :
    Cardinality({r \in sessions : r.id = c.session_id}) = 1

\* A checkpoint call of one Session object has just inserted a row whose
\* parent is the session row of the other object, next to that object's own
\* checkpoint row.
C15_Witness ==
  /\ last.op = "checkpoint"
  /\ last.s = "s2"
  /\ last.ret_id = 2
  /\ \E c \in checkpoints, r \in sessions :
       /\ c.id = last.ret_id
       /\ r.id = c.session_id
       /\ r.name = CtorName("s1")
  /\ Cardinality(sessions) = 2

\* The meta of a checkpoint row, as checkpoint pickled it.
MetaOf(cid) == loads(CheckpointRow(cid).serialized_data).meta

\* C16: checkpoint() freezes exactly the handlers of the session's registry,
\* and revive(c) of an existing checkpoint c calls restore exactly once on each
\* handler of the reviving session's registry, with the value stored under
\* that handler's name in c's meta.
C16_RegistryBothWays ==
  /\ (last.op = "checkpoint" /\ last.ret_id # 0)
       => DOMAIN MetaOf(last.ret_id) = meta_handlers(last.s)
  /\ (last.op = "revive" /\ get_checkpoint(last.arg) # {})
       => last.restored =
            [k \in meta_handlers(last.s) |-> MetaOf(last.arg)[k]]

\* C17: no call changes or removes an inserted checkpoint row, and writes
\* made after a checkpoint do not change what reviving it yields: a revive of
\* that checkpoint leaves the session with the state held when it was taken.
C17_CheckpointImmutable ==
  [][/\ checkpoints \subseteq checkpoints'
     /\ (last'.op = "revive" /\ last'.arg \in DOMAIN orig
           /\ get_checkpoint(last'.arg) # {})
          => /\ internals'[last'.s].has_props
             /\ internals'[last'.s].state = orig[last'.arg].state]_vars

\* C18: while the status of a session is BEGUN its active session id is the
\* id insert_session returned to its own begin call, so every checkpoint row
\* it inserts references the session row it inserted itself.
C18_OwnSessionId ==
  /\ \A s \in Sessions :
       internals[s].status = STATUS_BEGUN
         => internals[s].session_id = hist[s].own_id
  /\ (last.op = "checkpoint" /\ last.ret_id # 0)
       => CheckpointRow(last.ret_id).session_id = hist[last.s].own_id

\* C19: a revive call that raises leaves the session as it was: status,
\* props, state, active session id, name and current script.
C19_FailedReviveNoChange ==
  [][(last'.op = "revive" /\ last'.outcome # "ok")
     => internals'[last'.s] = internals[last'.s]]_vars

\* C20: a Session object inserts at most one session row over its lifetime,
\* also when a begin call fails and begin is called again.
C20_OneRowPerObject ==
  \A s \in Sessions : Cardinality(hist[s].inserted) <= 1

====
